---- MODULE Spec2Model ----
(***************************************************************************)
(* Model of the two FastAPI services of the repository:                    *)
(*   docker/transaction-api/main.py      (transaction service)             *)
(*   docker/notification-service/main.py (notification service)           *)
(* Each request handler is a coroutine; between two awaits its code runs   *)
(* without interruption, so every action below is one such segment: it     *)
(* starts at the await that resumes it (the store or cache call, whose     *)
(* outcome is chosen here) and runs to the next await or to the response.  *)
(***************************************************************************)
EXTENDS Integers, Sequences, FiniteSets, TLC

\* ------------------------------------------------------------------ bounds
\* Handler invocations (of both services together) in one behaviour; any
\* number of them may be in flight at once.
MaxReq == 2
\* Distinct values generate_*_id can draw (timestamp digits + uuid prefix).
NIds == 3
\* Last instant of the wall clock read by datetime.now().
MaxTime == 2

Reqs == 1..MaxReq
\* Primary keys of a table: a row per handler invocation, and one stored before.
Rows == 1..(MaxReq + 1)
IdSuffixes == 1..NIds
Users == {"u1", "u2"}

\* ------------------------------------------------------- python values
\* None, a dict (its items) and the str() of a dict (the text of its repr).
\* An item is <<key, text, number>>.
PyNone == [tag |-> "None", val |-> <<>>]
PyDict(items) == [tag |-> "dict", val |-> items]
PyStr(items) == [tag |-> "str", val |-> items]
EmptyDict == PyDict(<<>>)
SomeDict == PyDict(<< <<"k", "v", 0>> >>)

\* bool(v) as Python's `if v` takes it: None and {} are false.
Truthy(v) == v.tag # "None" /\ ~(v.tag = "dict" /\ v.val = <<>>)
\* str(d) of a dict: the text of its repr.
str(v) == PyStr(v.val)
\* eval(s) of the repr of a dict: that dict.
eval(v) == PyDict(v.val)
\* pydantic's Optional[Dict] field: None or a dict, nothing else.
IsOptionalDict(v) == v.tag \in {"None", "dict"}

\* str.upper() on the currency codes of the model.
upper(s) ==
  CASE s = "usd" -> "USD"
    [] s = "brl" -> "BRL"
    [] s = "us" -> "US"
    [] s = "euro" -> "EURO"
    [] OTHER -> s

\* NULL of a nullable DateTime column.
NULL == -1
\* datetime.now(timezone.utc) evaluated once, when the table class is defined:
\* the default of created_at and updated_at.
ClassDefTime == 0

\* --------------------------------------------------------------- state
VARIABLES
  txStore,    \* table transactions: rows in insertion order
  ntStore,    \* table notifications: rows in insertion order
  cache,      \* redis: key -> value, for the keys present
  metrics,    \* the prometheus counters of both services
  req,        \* the handler invocations in flight, one per slot
  last,       \* the handler invocation that answered last, with its answer
  started,    \* handler invocations entered so far
  answered,   \* handler invocations answered so far
  task,       \* the background send_notification task of each transaction row
  now,        \* the wall clock
  accepted    \* the body of the creation answered 201, per table and row

vars == <<txStore, ntStore, cache, metrics, req, last, started, answered, task, now,
          accepted>>

\* The identifiers a generator can return when the table holds `rows` rows: one
\* of a row (a collision) or a new one. Identifiers are only ever compared for
\* equality, so the new one is taken to be the least not yet in the table.
Drawn(rows) == {n \in IdSuffixes : n <= rows + 1}

\* The identifiers a client can name when the table holds `rows` rows: the one
\* of a row, or one that matches no row.
Named(rows) == {n \in IdSuffixes : n <= rows + 1}

generate_transaction_id(n) == <<"TXN", n>>
generate_notification_id(n) == <<"NOT", n>>
NoId == <<"", 0>>

\* ------------------------------------------------------------ the cache
cache_key(prefix, id) == <<prefix, id[1], id[2]>>
user_cache_key(user_id) == <<"user_notifications", user_id, 0>>
\* Variant: a DEL that leaves the key in place.
deleteKept(c, key) == c
\* SETEX key ttl value
setex(c, key, ttl, value) ==
  [k \in DOMAIN c \cup {key} |-> IF k = key THEN [ttl |-> ttl, value |-> value] ELSE c[k]]
\* DEL key, and EXPIRE key 0, which deletes the key at once.
delete(c, key) == [k \in DOMAIN c \ {key} |-> c[k]]

\* ------------------------------------------------------------- requests
NoRow == [id |-> 0]
NoArg == [user_id |-> ""]
\* The values mark_notification_as_read's UPDATE statement carries.
NoValues == [read_at |-> NULL, updated_at |-> NULL]
\* What mark_notification_as_read's UPDATE met: the status and read_at of the
\* row before it, and whether the create_notification that inserted the row
\* still ran.
NoFound == [status |-> "", read_at |-> NULL, creating |-> FALSE]
IdleReq ==
  [op |-> "", pc |-> "idle", arg |-> NoArg, bid |-> NoId, obj |-> NoRow,
   resp |-> 0, stage |-> "", origin |-> 0, values |-> NoValues, found |-> NoFound]
\* A new invocation of handler `op` with request data `arg`.
Request(op, arg) == [IdleReq EXCEPT !.op = op, !.arg = arg]
\* A handler invocation that has answered: status code, body, and the place
\* of the handler that produced the answer.
Answered(q, code, body, stage) ==
  [q EXCEPT !.pc = "done", !.resp = code, !.obj = body, !.stage = stage]
\* A request enters in the lowest free slot, while the budget lasts.
CanStart(r) ==
  /\ started < MaxReq
  /\ req[r].pc = "idle"
  /\ \A s \in Reqs : s < r => req[s].pc # "idle"

inc(m, counter) == [m EXCEPT ![counter] = @ + 1]
\* Variant: a handler that answers 500 without counting the error.
except_ExceptionSilent(m, counter) == m
\* `except Exception:` of the handlers that count their errors: the error
\* counter of the service, then HTTPException(500).
except_Exception(m, counter) == inc(m, counter)

\* The handler in slot r answers with q: the slot is free again.
Reply(r, q) ==
  /\ req' = [req EXCEPT ![r] = IdleReq]
  /\ last' = q
  /\ answered' = answered + 1
\* The handler in slot r goes on as q, suspended at its next await.
Continue(r, q) ==
  /\ req' = [req EXCEPT ![r] = q]
  /\ UNCHANGED <<last, answered>>

\* ------------------------------------------------- transaction service
\* TransactionCreate's validators and Field constraints.
allowed_types == {"credit", "debit", "transfer"}
validate_transaction_type(v) == v \in allowed_types
validate_currency(v) == Len(v) = 3
\* Variant: the amount bound `ge=0` in place of `gt=0`.
ValidTransactionCreateGe(p) ==
  /\ p.amount >= 0
  /\ Len(p.currency) <= 3
  /\ validate_transaction_type(p.transaction_type)
  /\ validate_currency(p.currency)
\* TransactionCreate accepts the body p.
ValidTransactionCreate(p) ==
  /\ p.amount > 0
  /\ Len(p.currency) <= 3
  /\ validate_transaction_type(p.transaction_type)
  /\ validate_currency(p.currency)

\* The request bodies of POST /transactions the model sends.
TransactionBodies ==
  { [user_id |-> "u1", amount |-> 100, currency |-> "usd",
     transaction_type |-> "credit", description |-> "<None>", metadata |-> PyNone],
    [user_id |-> "u2", amount |-> 100, currency |-> "BRL",
     transaction_type |-> "transfer", description |-> "d", metadata |-> SomeDict],
    [user_id |-> "u1", amount |-> 5, currency |-> "brl",
     transaction_type |-> "debit", description |-> "<None>", metadata |-> EmptyDict],
    [user_id |-> "u1", amount |-> 0, currency |-> "usd",
     transaction_type |-> "credit", description |-> "<None>", metadata |-> PyNone],
    [user_id |-> "u1", amount |-> -1, currency |-> "usd",
     transaction_type |-> "credit", description |-> "<None>", metadata |-> PyNone],
    [user_id |-> "u1", amount |-> 100, currency |-> "us",
     transaction_type |-> "credit", description |-> "<None>", metadata |-> PyNone],
    [user_id |-> "u1", amount |-> 100, currency |-> "euro",
     transaction_type |-> "credit", description |-> "<None>", metadata |-> PyNone],
    [user_id |-> "u1", amount |-> 100, currency |-> "usd",
     transaction_type |-> "refund", description |-> "<None>", metadata |-> PyNone] }

\* The model after validation: validate_currency returns v.upper().
TransactionCreate(p) == [p EXCEPT !.currency = upper(p.currency)]

\* TransactionDB(...) as create_transaction builds it, with the primary key and
\* the column defaults the INSERT fills in.
TransactionDB(id, transaction_id, t) ==
  [ id |-> id,
    transaction_id |-> transaction_id,
    user_id |-> t.user_id,
    amount |-> t.amount,
    currency |-> t.currency,
    transaction_type |-> t.transaction_type,
    description |-> t.description,
    metadata |-> IF Truthy(t.metadata) THEN str(t.metadata) ELSE PyNone,
    status |-> "pending",
    created_at |-> ClassDefTime,
    updated_at |-> ClassDefTime,
    is_active |-> TRUE ]

\* The dict create_transaction hands to send_notification.
transaction_data(transaction_id, t) ==
  [ transaction_id |-> transaction_id,
    user_id |-> t.user_id,
    amount |-> t.amount,
    currency |-> t.currency,
    transaction_type |-> t.transaction_type ]

NoData == transaction_data(NoId, [user_id |-> "", amount |-> 0, currency |-> "",
                                  transaction_type |-> ""])
NoTask == [state |-> "none", data |-> NoData, posts |-> 0, log |-> ""]

\* Variant: a column transaction_id without the unique index.
TxUniqueViolationNever(transaction_id) == FALSE
\* The unique index on transactions.transaction_id.
TxUniqueViolation(transaction_id) ==
  \E i \in DOMAIN txStore : txStore[i].transaction_id = transaction_id

\* POST /transactions with a body pydantic rejects: FastAPI answers 422 and
\* create_transaction is never entered.
create_transaction_invalid(r) ==
  /\ CanStart(r)
  /\ \E p \in TransactionBodies :
       /\ ~ValidTransactionCreate(p)
       /\ last' = Answered(Request("create_transaction", p), 422, NoRow, "validation")
  /\ started' = started + 1
  /\ answered' = answered + 1
  /\ UNCHANGED <<txStore, ntStore, cache, metrics, req, task, now, accepted>>

\* Variant: a handler that writes the cache entry before it commits.
create_transaction_commitCacheFirst(r) ==
  /\ CanStart(r)
  /\ \E p \in TransactionBodies, n \in Drawn(Len(txStore)), db_ok \in BOOLEAN :
       /\ ValidTransactionCreate(p)
       /\ LET t == TransactionCreate(p)
              transaction_id == generate_transaction_id(n)
              q == [Request("create_transaction", p) EXCEPT !.bid = transaction_id]
              row == TransactionDB(Len(txStore) + 1, transaction_id, t)
          IN /\ cache' = setex(cache, cache_key("transaction", transaction_id), 3600, row)
             /\ IF db_ok /\ ~TxUniqueViolation(transaction_id)
                THEN /\ txStore' = Append(txStore, row)
                     /\ Continue(r, [q EXCEPT !.pc = "refresh"])
                     /\ UNCHANGED metrics
                ELSE /\ metrics' = except_Exception(metrics, "TRANSACTION_ERRORS")
                     /\ Reply(r, Answered(q, 500, NoRow, "commit"))
                     /\ UNCHANGED txStore
  /\ started' = started + 1
  /\ UNCHANGED <<ntStore, task, now, accepted>>

\* create_transaction up to `await db.commit()`: the identifier is generated,
\* the row is built, INSERT and COMMIT succeed or raise.
create_transaction_commit(r) ==
  /\ CanStart(r)
  /\ \E p \in TransactionBodies, n \in Drawn(Len(txStore)), db_ok \in BOOLEAN :
       /\ ValidTransactionCreate(p)
       /\ LET t == TransactionCreate(p)
              transaction_id == generate_transaction_id(n)
              q == [Request("create_transaction", p) EXCEPT !.bid = transaction_id]
          IN IF db_ok /\ ~TxUniqueViolation(transaction_id)
             THEN /\ txStore' = Append(txStore,
                                       TransactionDB(Len(txStore) + 1, transaction_id, t))
                  /\ Continue(r, [q EXCEPT !.pc = "refresh"])
                  /\ UNCHANGED metrics
             ELSE /\ metrics' = except_Exception(metrics, "TRANSACTION_ERRORS")
                  /\ Reply(r, Answered(q, 500, NoRow, "commit"))
                  /\ UNCHANGED txStore
  /\ started' = started + 1
  /\ UNCHANGED <<ntStore, cache, task, now, accepted>>

\* `await db.refresh(db_transaction)`: the row is read back, or the call raises.
create_transaction_refresh(r) ==
  /\ req[r].op = "create_transaction" /\ req[r].pc = "refresh"
  /\ \E db_ok \in BOOLEAN :
       IF db_ok
       THEN /\ \E i \in DOMAIN txStore :
                 /\ txStore[i].transaction_id = req[r].bid
                 /\ Continue(r, [req[r] EXCEPT !.pc = "cache", !.obj = txStore[i]])
            /\ UNCHANGED metrics
       ELSE /\ metrics' = except_Exception(metrics, "TRANSACTION_ERRORS")
            /\ Reply(r, Answered(req[r], 500, NoRow, "refresh"))
  /\ UNCHANGED <<txStore, ntStore, cache, started, task, now, accepted>>

\* TransactionResponse.from_orm(db_transaction): metadata is Optional[Dict].
TransactionResponseValid(obj) == IsOptionalDict(obj.metadata)

\* From `await redis_client.setex(...)` to the end of create_transaction: the
\* cache entry, the created counter, add_task, the response model. A raise
\* anywhere lands in `except Exception` (error counter, 500), and FastAPI then
\* answers without the handler's BackgroundTasks, so the added task never runs.
create_transaction_cache(r) ==
  /\ req[r].op = "create_transaction" /\ req[r].pc = "cache"
  /\ \E redis_ok \in BOOLEAN :
       IF ~redis_ok
       THEN /\ metrics' = except_Exception(metrics, "TRANSACTION_ERRORS")
            /\ Reply(r, Answered(req[r], 500, NoRow, "cache"))
            /\ UNCHANGED <<cache, task, accepted>>
       ELSE /\ cache' = setex(cache, cache_key("transaction", req[r].bid), 3600, req[r].obj)
            /\ IF TransactionResponseValid(req[r].obj)
               THEN /\ metrics' = inc(metrics, "TRANSACTION_CREATED")
                    /\ task' = [task EXCEPT ![req[r].obj.id] =
                                  [NoTask EXCEPT !.state = "scheduled",
                                                 !.data = transaction_data(req[r].bid,
                                                             TransactionCreate(req[r].arg))]]
                    /\ accepted' = [accepted EXCEPT ![<<"transactions", req[r].obj.id>>] =
                                                        req[r].arg]
                    /\ Reply(r, Answered(req[r], 201, req[r].obj, "return"))
               ELSE /\ metrics' = except_Exception(inc(metrics, "TRANSACTION_CREATED"),
                                                "TRANSACTION_ERRORS")
                    /\ Reply(r, Answered(req[r], 500, NoRow, "from_orm"))
                    /\ UNCHANGED <<task, accepted>>
  /\ UNCHANGED <<txStore, ntStore, started, now>>

\* SELECT * FROM transactions WHERE transaction_id = :transaction_id AND
\* is_active = true
SelectTransaction(transaction_id) ==
  {i \in DOMAIN txStore :
     txStore[i].transaction_id = transaction_id /\ txStore[i].is_active}

\* The TransactionResponse get_transaction builds from a row.
TransactionResponse(row) ==
  [row EXCEPT !.metadata = IF Truthy(@) THEN eval(@) ELSE PyNone]

\* GET /transactions/{transaction_id}: the cache read (its value is only
\* logged) and the query can raise; no row gives 404.
get_transaction(r) ==
  /\ CanStart(r)
  /\ \E n \in Named(Len(txStore)), redis_ok \in BOOLEAN, db_ok \in BOOLEAN :
       LET transaction_id == generate_transaction_id(n)
           q == [Request("get_transaction", NoArg) EXCEPT !.bid = transaction_id]
       IN IF ~(redis_ok /\ db_ok)
          THEN /\ metrics' = except_Exception(metrics, "TRANSACTION_ERRORS")
               /\ last' = Answered(q, 500, NoRow, IF redis_ok THEN "execute" ELSE "cache")
          ELSE IF SelectTransaction(transaction_id) = {}
          THEN /\ last' = Answered(q, 404, NoRow, "not_found")
               /\ UNCHANGED metrics
          ELSE /\ metrics' = inc(metrics, "TRANSACTION_RETRIEVED")
               /\ \E i \in SelectTransaction(transaction_id) :
                    last' = Answered(q, 200, TransactionResponse(txStore[i]), "return")
  /\ started' = started + 1
  /\ answered' = answered + 1
  /\ UNCHANGED <<txStore, ntStore, cache, req, task, now, accepted>>

\* GET /transactions/user/{user_id}: the query can raise; the answer is the
\* empty list.
get_user_transactions(r) ==
  /\ CanStart(r)
  /\ \E db_ok \in BOOLEAN :
       last' = Answered(Request("get_user_transactions", NoArg),
                        IF db_ok THEN 200 ELSE 500, NoRow,
                        IF db_ok THEN "return" ELSE "execute")
  /\ started' = started + 1
  /\ answered' = answered + 1
  /\ UNCHANGED <<txStore, ntStore, cache, metrics, req, task, now, accepted>>

\* ------------------------------------------------------------ /health
Services == {"transaction", "notification"}
\* db_status and redis_status of health_check: "healthy" unless the probe raised.
probe_status(ok) == IF ok THEN "healthy" ELSE "unhealthy"
\* Variant: an overall status that is healthy when either probe succeeded.
HealthResponseEither(db_status, redis_status) ==
  [ status |-> IF db_status = "healthy" \/ redis_status = "healthy"
               THEN "healthy" ELSE "degraded",
    version |-> "1.0.0",
    database |-> db_status,
    redis |-> redis_status ]
\* The HealthResponse health_check returns.
HealthResponse(db_status, redis_status) ==
  [ status |-> IF db_status = "healthy" /\ redis_status = "healthy"
               THEN "healthy" ELSE "degraded",
    version |-> "1.0.0",
    database |-> db_status,
    redis |-> redis_status ]

\* GET /health of either service: `SELECT 1` and PING succeed or raise, each
\* in a try of its own; the outcomes of the two probes are kept with the
\* request.
health_check(r) ==
  /\ CanStart(r)
  /\ \E service \in Services, db_ok \in BOOLEAN, redis_ok \in BOOLEAN :
       LET db_status == probe_status(db_ok)
           redis_status == probe_status(redis_ok)
           q == Request("health_check",
                        [service |-> service, db_ok |-> db_ok, redis_ok |-> redis_ok])
       IN last' = Answered(q, 200, HealthResponse(db_status, redis_status), "return")
  /\ started' = started + 1
  /\ answered' = answered + 1
  /\ UNCHANGED <<txStore, ntStore, cache, metrics, req, task, now, accepted>>

\* ------------------------------------------------ notification service
\* NotificationCreate's validators and Field constraints.
allowed_priorities == {"low", "normal", "high", "urgent"}
allowed_notification_types ==
  {"transaction_created", "system_alert", "security_alert", "payment_confirmation", "general"}
validate_priority(v) == v \in allowed_priorities
validate_type(v) == v \in allowed_notification_types
ValidNotificationCreate(p) ==
  /\ Len(p.title) <= 200
  /\ validate_priority(p.priority)
  /\ validate_type(p.type)

\* A message text with the values formatted into it.
Text(text, amount, currency) == [text |-> text, amount |-> amount, currency |-> currency]

\* The request bodies of POST /notify the model's clients send.
NotificationBodies ==
  { [user_id |-> "u1", type |-> "general", title |-> "t", message |-> Text("m", 0, ""),
     priority |-> "normal", metadata |-> PyNone],
    [user_id |-> "u2", type |-> "system_alert", title |-> "t", message |-> Text("m", 0, ""),
     priority |-> "urgent", metadata |-> SomeDict],
    [user_id |-> "u1", type |-> "promo", title |-> "t", message |-> Text("m", 0, ""),
     priority |-> "normal", metadata |-> PyNone],
    [user_id |-> "u1", type |-> "general", title |-> "t", message |-> Text("m", 0, ""),
     priority |-> "critical", metadata |-> PyNone] }

\* NotificationDB(...) as create_notification builds it, with the primary key
\* and the column defaults the INSERT fills in.
NotificationDB(id, notification_id, n) ==
  [ id |-> id,
    notification_id |-> notification_id,
    user_id |-> n.user_id,
    type |-> n.type,
    title |-> n.title,
    message |-> n.message,
    priority |-> n.priority,
    metadata |-> n.metadata,
    status |-> "unread",
    created_at |-> ClassDefTime,
    updated_at |-> ClassDefTime,
    read_at |-> NULL,
    is_active |-> TRUE ]

\* The unique index on notifications.notification_id.
NtUniqueViolation(notification_id) ==
  \E i \in DOMAIN ntStore : ntStore[i].notification_id = notification_id

\* Variant: a notifier that posts again after a status other than 200.
notify_responseRetry(tk, origin, status_code) ==
  IF origin # 0 /\ tk[origin].state = "posting"
  THEN IF status_code = 200
       THEN [tk EXCEPT ![origin].state = "done", ![origin].log = "info"]
       ELSE [tk EXCEPT ![origin].state = "scheduled", ![origin].log = "warning"]
  ELSE tk

\* send_notification's handling of the response to its POST: the success log
\* on status 200, the warning otherwise. Nothing is delivered to a task that
\* no longer waits.
notify_response(tk, origin, status_code) ==
  IF origin # 0 /\ tk[origin].state = "posting"
  THEN [tk EXCEPT ![origin].state = "done",
                  ![origin].log = IF status_code = 200 THEN "info" ELSE "warning"]
  ELSE tk

\* create_notification answers with q; a waiting notifier receives the status.
NtReply(r, q) ==
  /\ Reply(r, q)
  /\ task' = notify_response(task, q.origin, q.resp)

\* create_notification up to `await db.commit()`, for a body that passed
\* validation, sent by a client (origin 0) or by the notifier of a transaction.
create_notification_begin(r, body, origin, tk) ==
  \E n \in Drawn(Len(ntStore)), db_ok \in BOOLEAN :
    LET notification_id == generate_notification_id(n)
        q == [Request("create_notification", body) EXCEPT !.bid = notification_id,
                                                          !.origin = origin]
    IN IF db_ok /\ ~NtUniqueViolation(notification_id)
       THEN /\ ntStore' = Append(ntStore,
                                 NotificationDB(Len(ntStore) + 1, notification_id, body))
            /\ Continue(r, [q EXCEPT !.pc = "refresh"])
            /\ task' = tk
            /\ UNCHANGED metrics
       ELSE /\ metrics' = except_Exception(metrics, "NOTIFICATION_ERRORS")
            /\ Reply(r, Answered(q, 500, NoRow, "commit"))
            /\ task' = notify_response(tk, origin, 500)
            /\ UNCHANGED ntStore

\* POST /notify from a client with a body pydantic rejects: 422, and
\* create_notification is never entered.
create_notification_invalid(r) ==
  /\ CanStart(r)
  /\ \E p \in NotificationBodies :
       /\ ~ValidNotificationCreate(p)
       /\ last' = Answered(Request("create_notification", p), 422, NoRow, "validation")
  /\ started' = started + 1
  /\ answered' = answered + 1
  /\ UNCHANGED <<txStore, ntStore, cache, metrics, req, task, now, accepted>>

\* POST /notify from a client with a valid body.
create_notification_commit(r) ==
  /\ CanStart(r)
  /\ \E p \in NotificationBodies :
       /\ ValidNotificationCreate(p)
       /\ create_notification_begin(r, p, 0, task)
  /\ started' = started + 1
  /\ UNCHANGED <<txStore, cache, now, accepted>>

\* `await db.refresh(db_notification)`: the row as the table holds it now.
create_notification_refresh(r) ==
  /\ req[r].op = "create_notification" /\ req[r].pc = "refresh"
  /\ \E db_ok \in BOOLEAN :
       IF db_ok
       THEN /\ \E i \in DOMAIN ntStore :
                 /\ ntStore[i].notification_id = req[r].bid
                 /\ Continue(r, [req[r] EXCEPT !.pc = "cache", !.obj = ntStore[i]])
            /\ UNCHANGED <<metrics, task>>
       ELSE /\ metrics' = except_Exception(metrics, "NOTIFICATION_ERRORS")
            /\ NtReply(r, Answered(req[r], 500, NoRow, "refresh"))
  /\ UNCHANGED <<txStore, ntStore, cache, started, now, accepted>>

\* Variant: a cache-write failure that takes the committed row back.
create_notification_cacheRollback(r) ==
  /\ req[r].op = "create_notification" /\ req[r].pc = "cache"
  /\ \E redis_ok \in BOOLEAN :
       IF redis_ok
       THEN /\ cache' = setex(cache, cache_key("notification", req[r].bid), 3600, req[r].obj)
            /\ Continue(r, [req[r] EXCEPT !.pc = "expire"])
            /\ UNCHANGED <<metrics, task, ntStore>>
       ELSE /\ metrics' = except_Exception(metrics, "NOTIFICATION_ERRORS")
            /\ NtReply(r, Answered(req[r], 500, NoRow, "cache"))
            /\ ntStore' = SelectSeq(ntStore, LAMBDA row : row.notification_id # req[r].bid)
            /\ UNCHANGED cache
  /\ UNCHANGED <<txStore, started, now, accepted>>

\* `await redis_client.setex(cache_key, 3600, str(db_notification.__dict__))`.
create_notification_cache(r) ==
  /\ req[r].op = "create_notification" /\ req[r].pc = "cache"
  /\ \E redis_ok \in BOOLEAN :
       IF redis_ok
       THEN /\ cache' = setex(cache, cache_key("notification", req[r].bid), 3600, req[r].obj)
            /\ Continue(r, [req[r] EXCEPT !.pc = "expire"])
            /\ UNCHANGED <<metrics, task>>
       ELSE /\ metrics' = except_Exception(metrics, "NOTIFICATION_ERRORS")
            /\ NtReply(r, Answered(req[r], 500, NoRow, "cache"))
            /\ UNCHANGED cache
  /\ UNCHANGED <<txStore, ntStore, started, now, accepted>>

\* NotificationResponse.from_orm(db_notification): metadata is Optional[Dict].
NotificationResponseValid(obj) == IsOptionalDict(obj.metadata)

\* From `await redis_client.expire(user_cache_key, 0)` to the end of
\* create_notification: the sent counter, the response model.
create_notification_expire(r) ==
  /\ req[r].op = "create_notification" /\ req[r].pc = "expire"
  /\ \E redis_ok \in BOOLEAN :
       IF ~redis_ok
       THEN /\ metrics' = except_Exception(metrics, "NOTIFICATION_ERRORS")
            /\ NtReply(r, Answered(req[r], 500, NoRow, "expire"))
            /\ UNCHANGED <<cache, accepted>>
       ELSE /\ cache' = delete(cache, user_cache_key(req[r].arg.user_id))
            /\ IF NotificationResponseValid(req[r].obj)
               THEN /\ metrics' = inc(metrics, "NOTIFICATIONS_SENT")
                    /\ accepted' = [accepted EXCEPT ![<<"notifications", req[r].obj.id>>] =
                                                        req[r].arg]
                    /\ NtReply(r, Answered(req[r], 201, req[r].obj, "return"))
               ELSE /\ metrics' = except_Exception(inc(metrics, "NOTIFICATIONS_SENT"),
                                                "NOTIFICATION_ERRORS")
                    /\ NtReply(r, Answered(req[r], 500, NoRow, "from_orm"))
                    /\ UNCHANGED accepted
  /\ UNCHANGED <<txStore, ntStore, started, now>>

\* The instants the two datetime.now() calls of one mark_notification_as_read
\* can return: later than every instant read by an earlier request, the
\* second not before the first.
Clock == {tt \in ((now + 1)..MaxTime) \X ((now + 1)..MaxTime) : tt[1] <= tt[2]}

\* Whether the create_notification that inserts the row `notification_id` is
\* still in flight.
Creating(notification_id) ==
  \E s \in Reqs : /\ req[s].op = "create_notification"
                  /\ req[s].pc # "idle"
                  /\ req[s].bid = notification_id

\* Variant: an UPDATE without the notification_id condition.
MarkMatchesAny(notification_id) == {i \in DOMAIN ntStore : ntStore[i].is_active}
\* UPDATE notifications SET status = 'read', read_at = :read_at, updated_at =
\* :updated_at WHERE notification_id = :notification_id AND is_active = true
\* RETURNING *: the rows it matches.
MarkMatches(notification_id) ==
  {i \in DOMAIN ntStore :
     ntStore[i].notification_id = notification_id /\ ntStore[i].is_active}
\* Variant: an UPDATE that also clears the soft-delete flag.
MarkUpdateDeactivate(row, read_at, updated_at) ==
  [row EXCEPT !.status = "read", !.read_at = read_at, !.updated_at = updated_at,
              !.is_active = FALSE]
\* Variant: an UPDATE that sets the status and leaves read_at alone.
MarkUpdateNoStamp(row, read_at, updated_at) ==
  [row EXCEPT !.status = "read", !.updated_at = updated_at]
\* Variant: an UPDATE that leaves an already read row as it is.
MarkUpdateOnce(row, read_at, updated_at) ==
  IF row.status = "read"
  THEN row
  ELSE [row EXCEPT !.status = "read", !.read_at = read_at, !.updated_at = updated_at]
\* A row the UPDATE matched, after it.
MarkUpdate(row, read_at, updated_at) ==
  [row EXCEPT !.status = "read", !.read_at = read_at, !.updated_at = updated_at]

\* mark_notification_as_read up to `await db.execute(...)`: the UPDATE statement
\* is built, with the two datetime.now() values in it.
mark_notification_as_read_begin(r) ==
  /\ CanStart(r)
  /\ \E n \in Named(Len(ntStore)), tt \in Clock :
       /\ now' = tt[2]
       /\ Continue(r, [Request("mark_notification_as_read", NoArg) EXCEPT
                         !.bid = generate_notification_id(n),
                         !.pc = "execute",
                         !.values = [read_at |-> tt[1], updated_at |-> tt[2]]])
  /\ started' = started + 1
  /\ UNCHANGED <<txStore, ntStore, cache, metrics, task, accepted>>

\* From `await db.execute(...)` to `await db.commit()`: the UPDATE runs (or
\* raises), no row gives 404, and the COMMIT makes the update visible or, when
\* it raises, the closing session rolls the update back.
mark_notification_as_read_update(r) ==
  /\ req[r].op = "mark_notification_as_read" /\ req[r].pc = "execute"
  /\ \E execute_ok \in BOOLEAN, commit_ok \in BOOLEAN :
       LET q == req[r]
           read_at == q.values.read_at
           updated_at == q.values.updated_at
       IN IF ~execute_ok
          THEN /\ Reply(r, Answered(q, 500, NoRow, "execute"))
               /\ UNCHANGED ntStore
          ELSE IF MarkMatches(q.bid) = {}
          THEN /\ Reply(r, Answered(q, 404, NoRow, "not_found"))
               /\ UNCHANGED ntStore
          ELSE IF ~commit_ok
          THEN /\ Reply(r, Answered(q, 500, NoRow, "commit"))
               /\ UNCHANGED ntStore
          ELSE \E i \in MarkMatches(q.bid) :
                 /\ ntStore' = [ntStore EXCEPT ![i] = MarkUpdate(@, read_at, updated_at)]
                 /\ Continue(r, [q EXCEPT !.pc = "delete_record",
                                          !.obj = MarkUpdate(ntStore[i], read_at, updated_at),
                                          !.found = [status |-> ntStore[i].status,
                                                     read_at |-> ntStore[i].read_at,
                                                     creating |-> Creating(q.bid)]])
  /\ UNCHANGED <<txStore, cache, metrics, started, task, now, accepted>>

\* Variant: a handler that goes on without the per-record delete.
mark_notification_as_read_delete_recordSkipped(r) ==
  /\ req[r].op = "mark_notification_as_read" /\ req[r].pc = "delete_record"
  /\ \E redis_ok \in BOOLEAN :
       IF redis_ok
       THEN /\ Continue(r, [req[r] EXCEPT !.pc = "delete_user"])
            /\ UNCHANGED cache
       ELSE /\ Reply(r, Answered(req[r], 500, NoRow, "delete_record"))
            /\ UNCHANGED cache
  /\ UNCHANGED <<txStore, ntStore, metrics, started, task, now, accepted>>

\* `await redis_client.delete(f"notification:{notification_id}")`.
mark_notification_as_read_delete_record(r) ==
  /\ req[r].op = "mark_notification_as_read" /\ req[r].pc = "delete_record"
  /\ \E redis_ok \in BOOLEAN :
       IF redis_ok
       THEN /\ cache' = delete(cache, cache_key("notification", req[r].bid))
            /\ Continue(r, [req[r] EXCEPT !.pc = "delete_user"])
       ELSE /\ Reply(r, Answered(req[r], 500, NoRow, "delete_record"))
            /\ UNCHANGED cache
  /\ UNCHANGED <<txStore, ntStore, metrics, started, task, now, accepted>>

\* `await redis_client.delete(f"user_notifications:{notification.user_id}")`
\* and the response.
mark_notification_as_read_delete_user(r) ==
  /\ req[r].op = "mark_notification_as_read" /\ req[r].pc = "delete_user"
  /\ \E redis_ok \in BOOLEAN :
       IF redis_ok
       THEN /\ cache' = delete(cache, user_cache_key(req[r].obj.user_id))
            /\ Reply(r, Answered(req[r], 200, req[r].obj, "return"))
       ELSE /\ Reply(r, Answered(req[r], 500, NoRow, "delete_user"))
            /\ UNCHANGED cache
  /\ UNCHANGED <<txStore, ntStore, metrics, started, task, now, accepted>>

\* GET /notifications/{user_id}: the cache read and the query can raise; the
\* rows found are counted and logged, and the answer is the empty list.
get_user_notifications(r) ==
  /\ CanStart(r)
  /\ \E redis_ok \in BOOLEAN, db_ok \in BOOLEAN :
       LET q == Request("get_user_notifications", NoArg)
       IN IF redis_ok /\ db_ok
          THEN /\ metrics' = inc(metrics, "NOTIFICATIONS_RETRIEVED")
               /\ last' = Answered(q, 200, NoRow, "return")
          ELSE /\ metrics' = except_Exception(metrics, "NOTIFICATION_ERRORS")
               /\ last' = Answered(q, 500, NoRow, IF redis_ok THEN "execute" ELSE "cache")
  /\ started' = started + 1
  /\ answered' = answered + 1
  /\ UNCHANGED <<txStore, ntStore, cache, req, task, now, accepted>>

\* GET /notifications/{user_id}/unread: the query can raise; the answer is the
\* empty list.
get_unread_notifications(r) ==
  /\ CanStart(r)
  /\ \E db_ok \in BOOLEAN :
       last' = Answered(Request("get_unread_notifications", NoArg),
                        IF db_ok THEN 200 ELSE 500, NoRow,
                        IF db_ok THEN "return" ELSE "execute")
  /\ started' = started + 1
  /\ answered' = answered + 1
  /\ UNCHANGED <<txStore, ntStore, cache, metrics, req, task, now, accepted>>

\* ------------------------------------------------------- the notifier
\* The dict transaction_data as the JSON object of the POST body's metadata.
metadata_of(d) ==
  PyDict(<< <<"transaction_id", d.transaction_id[1], d.transaction_id[2]>>,
            <<"user_id", d.user_id, 0>>,
            <<"amount", "", d.amount>>,
            <<"currency", d.currency, 0>>,
            <<"transaction_type", d.transaction_type, 0>> >>)

\* Variant: a payload whose type is the transaction's own type.
notification_payloadOwnType(d) ==
  [ user_id |-> d.user_id,
    type |-> d.transaction_type,
    title |-> "Nova Transacao",
    message |-> Text("Transacao de {amount} {currency} foi criada", d.amount, d.currency),
    priority |-> "normal",
    metadata |-> metadata_of(d) ]

\* send_notification's notification_payload, with the default NotificationCreate
\* gives the priority the body leaves out.
notification_payload(d) ==
  [ user_id |-> d.user_id,
    type |-> "transaction_created",
    title |-> "Nova Transacao",
    message |-> Text("Transacao de {amount} {currency} foi criada", d.amount, d.currency),
    priority |-> "normal",
    metadata |-> metadata_of(d) ]

\* The background task of transaction row i runs send_notification and its
\* POST reaches the notification service, which answers 422 to a body it
\* rejects and enters create_notification otherwise.
send_notification_post(r, i) ==
  /\ CanStart(r)
  /\ task[i].state = "scheduled"
  /\ LET body == notification_payload(task[i].data)
         posted == [task EXCEPT ![i].state = "posting", ![i].posts = @ + 1]
     IN IF ValidNotificationCreate(body)
        THEN create_notification_begin(r, body, i, posted)
        ELSE /\ last' = Answered([Request("create_notification", body)
                                    EXCEPT !.origin = i], 422, NoRow, "validation")
             /\ answered' = answered + 1
             /\ task' = notify_response(posted, i, 422)
             /\ UNCHANGED <<ntStore, metrics, req>>
  /\ started' = started + 1
  /\ UNCHANGED <<txStore, cache, now, accepted>>

\* Variant: a notifier whose failure is counted as an error of the transaction
\* service.
send_notification_errorRaises(i) ==
  /\ task[i].state \in {"scheduled", "posting"}
  /\ task' = [task EXCEPT ![i].state = "done", ![i].log = "error",
                          ![i].posts = IF task[i].state = "scheduled" THEN @ + 1 ELSE @]
  /\ metrics' = except_Exception(metrics, "TRANSACTION_ERRORS")
  /\ UNCHANGED <<txStore, ntStore, cache, req, last, started, answered, now, accepted>>

\* send_notification's `except Exception`: the POST fails to connect, or no
\* response comes within the timeout; the error is logged and nothing else.
send_notification_error(i) ==
  /\ task[i].state \in {"scheduled", "posting"}
  /\ task' = [task EXCEPT ![i].state = "done", ![i].log = "error",
                          ![i].posts = IF task[i].state = "scheduled" THEN @ + 1 ELSE @]
  /\ UNCHANGED <<txStore, ntStore, cache, metrics, req, last, started, answered, now>>
  /\ UNCHANGED accepted

\* A notification an earlier run of the service committed: the tables outlive
\* the process, and its cache entry has expired since.
EarlierNotification ==
  NotificationDB(1, generate_notification_id(1),
                 [user_id |-> "u1", type |-> "general", title |-> "t",
                  message |-> Text("m", 0, ""), priority |-> "normal", metadata |-> PyNone])

\* What redis holds under the per-user list keys, which no handler writes.
UserListEntries(S) == [k \in S |-> [ttl |-> 3600, value |-> NoRow]]

InitProcess ==
  /\ metrics = [TRANSACTION_CREATED |-> 0, TRANSACTION_RETRIEVED |-> 0,
                TRANSACTION_ERRORS |-> 0, NOTIFICATIONS_SENT |-> 0,
                NOTIFICATIONS_RETRIEVED |-> 0, NOTIFICATION_ERRORS |-> 0]
  /\ req = [r \in Reqs |-> IdleReq]
  /\ last = IdleReq
  /\ started = 0
  /\ answered = 0
  /\ task = [i \in Reqs |-> NoTask]
  /\ now = ClassDefTime
  /\ accepted = [k \in {"transactions", "notifications"} \X Rows |-> NoArg]

\* Both services start on empty tables and an empty cache.
InitTransaction ==
  /\ InitProcess
  /\ txStore = <<>>
  /\ ntStore = <<>>
  /\ cache = UserListEntries({})

\* The notification service starts on an empty table or on one that holds an
\* unread notification, with or without per-user list entries in redis.
InitNotification ==
  /\ InitProcess
  /\ txStore = <<>>
  /\ ntStore \in {<<>>, <<EarlierNotification>>}
  /\ cache \in {UserListEntries({}), UserListEntries({user_cache_key(u) : u \in Users})}

\* The transaction service, its notifier, and the endpoint the notifier posts to.
NextTransaction ==
  \E r \in Reqs :
    \/ create_transaction_invalid(r)
    \/ create_transaction_commit(r)
    \/ create_transaction_refresh(r)
    \/ create_transaction_cache(r)
    \/ get_transaction(r)
    \/ get_user_transactions(r)
    \/ health_check(r)
    \/ \E i \in Reqs : send_notification_post(r, i)
    \/ send_notification_error(r)
    \/ create_notification_invalid(r)
    \/ create_notification_commit(r)
    \/ create_notification_refresh(r)
    \/ create_notification_cache(r)
    \/ create_notification_expire(r)

\* The notification service and its clients.
NextNotification ==
  \E r \in Reqs :
    \/ create_notification_invalid(r)
    \/ create_notification_commit(r)
    \/ create_notification_refresh(r)
    \/ create_notification_cache(r)
    \/ create_notification_expire(r)
    \/ mark_notification_as_read_begin(r)
    \/ mark_notification_as_read_update(r)
    \/ mark_notification_as_read_delete_record(r)
    \/ mark_notification_as_read_delete_user(r)
    \/ get_user_notifications(r)
    \/ get_unread_notifications(r)

SpecTransaction == InitTransaction /\ [][NextTransaction]_vars
\* The event loop runs every background task it holds, and the POST of
\* send_notification returns or raises within its timeout of 10 seconds.
send_notification(i) ==
  \/ \E r \in Reqs : send_notification_post(r, i)
  \/ send_notification_error(i)
SpecTransactionFair ==
  SpecTransaction /\ \A i \in Reqs : WF_vars(send_notification(i))
SpecNotification == InitNotification /\ [][NextNotification]_vars

\* Both services and their clients, on tables that hold one notification stored
\* earlier and an empty cache.
InitServices ==
  /\ InitProcess
  /\ txStore = <<>>
  /\ ntStore = <<EarlierNotification>>
  /\ cache = UserListEntries({})
NextServices ==
  \/ NextTransaction
  \/ \E r \in Reqs :
       \/ mark_notification_as_read_begin(r)
       \/ mark_notification_as_read_update(r)
       \/ mark_notification_as_read_delete_record(r)
       \/ mark_notification_as_read_delete_user(r)
       \/ get_user_notifications(r)
       \/ get_unread_notifications(r)
SpecServices == InitServices /\ [][NextServices]_vars


\* ------------------------------------------------------------------ claims
CreationOps == {"create_transaction", "create_notification"}
TransactionOps == {"create_transaction", "get_transaction", "get_user_transactions"}
\* The handler invocations the state shows: those in flight and the last answered.
Shown == {req[r] : r \in Reqs} \cup {last}
\* A step in which a handler answers; last' is then the answer.
Answers == answered' = answered + 1
\* The error counter of the service that serves `op`.
ErrorCounter(op) ==
  IF op \in TransactionOps THEN "TRANSACTION_ERRORS" ELSE "NOTIFICATION_ERRORS"
\* The rows of the table of creation handler `op` that carry business id `bid`.
Records(op, bid, transactions, notifications) ==
  IF op = "create_transaction"
  THEN {i \in DOMAIN transactions : transactions[i].transaction_id = bid}
  ELSE {i \in DOMAIN notifications : notifications[i].notification_id = bid}

\* The field constraints of the two creation requests, as the data model
\* states them.
ViolatesConstraint(q) ==
  IF q.op = "create_transaction"
  THEN \/ q.arg.amount <= 0
       \/ q.arg.transaction_type \notin {"credit", "debit", "transfer"}
       \/ Len(q.arg.currency) # 3
  ELSE \/ q.arg.type \notin {"transaction_created", "system_alert", "security_alert",
                            "payment_confirmation", "general"}
       \/ q.arg.priority \notin {"low", "normal", "high", "urgent"}

\* C1: a creation request that violates a field constraint is answered 422 and
\* never enters its handler, and the step that rejects it changes neither
\* table, nor the cache, nor the notifier tasks, nor a created counter.
C1_InvalidRejectedWithoutWrites ==
  [][ /\ \A r \in Reqs : req'[r].op \in CreationOps => ~ViolatesConstraint(req'[r])
      /\ (last'.op \in CreationOps /\ ViolatesConstraint(last')) => last'.resp = 422
      /\ (Answers /\ last'.op \in CreationOps /\ last'.resp = 422) =>
           /\ UNCHANGED <<txStore, ntStore, cache, task>>
           /\ metrics'.TRANSACTION_CREATED = metrics.TRANSACTION_CREATED
           /\ metrics'.NOTIFICATIONS_SENT = metrics.NOTIFICATIONS_SENT ]_vars

\* A notification of an unknown type is rejected while the transaction table
\* and the cache hold the record of an earlier creation.
C1_Witness ==
  /\ last.op = "create_notification" /\ last.resp = 422
  /\ last.arg.type = "promo"
  /\ Len(txStore) = 1
  /\ cache_key("transaction", txStore[1].transaction_id) \in DOMAIN cache

\* A creation handler answers from the failure of its store write.
CommitFails == Answers /\ last'.op \in CreationOps /\ last'.stage = "commit"

\* C2 (as stated): when the store write of a creation fails, the answer is 500,
\* the error counter of the service goes up by exactly one, no cache entry is
\* written, and the table holds no record with the generated business id.
C2_CommitFailureLeavesNoRecordForId ==
  [][ CommitFails =>
        /\ last'.resp = 500
        /\ metrics' = [metrics EXCEPT ![ErrorCounter(last'.op)] = @ + 1]
        /\ cache' = cache
        /\ Records(last'.op, last'.bid, txStore', ntStore') = {} ]_vars

\* C2 (amended): when the store write of a creation fails, the answer is 500,
\* the error counter of the service goes up by exactly one and no other counter
\* moves, no cache entry is written, and the request adds no record: both
\* tables are as they were (a record with the generated business id exists
\* only if an earlier request committed it).
C2_CommitFailureAddsNothing ==
  [][ CommitFails =>
        /\ last'.resp = 500
        /\ metrics' = [metrics EXCEPT ![ErrorCounter(last'.op)] = @ + 1]
        /\ cache' = cache
        /\ UNCHANGED <<txStore, ntStore>> ]_vars

\* The store write of a transaction creation has failed, next to a committed
\* transaction.
C2_Witness ==
  /\ last.op = "create_transaction" /\ last.stage = "commit" /\ last.resp = 500
  /\ metrics.TRANSACTION_ERRORS = 1
  /\ Len(txStore) = 1

\* The create_transaction that inserted row i has not answered yet.
CreatingTransaction(i) ==
  \E r \in Reqs : /\ req[r].op = "create_transaction"
                  /\ req[r].pc # "idle"
                  /\ req[r].bid = txStore[i].transaction_id

\* C3: every committed transaction record has a notifier call scheduled for it
\* once its creation request has ended, and a notifier call is scheduled only
\* for a committed record.
C3_CommittedHaveNotifier ==
  /\ \A i \in DOMAIN txStore : ~CreatingTransaction(i) => task[i].state # "none"
  /\ \A i \in Reqs : task[i].state # "none" => i \in DOMAIN txStore

\* The notification rows that carry the business id of transaction row i.
NotificationsOf(i) ==
  {j \in DOMAIN ntStore :
     \E k \in DOMAIN ntStore[j].metadata.val :
       ntStore[j].metadata.val[k] = <<"transaction_id", txStore[i].transaction_id[1],
                                      txStore[i].transaction_id[2]>>}

\* C4: the 201 of a transaction creation leaves one notifier call scheduled; the
\* notifier then issues its POST once and never a second time, with type
\* "transaction_created" and the transaction's id in the metadata; at most one
\* notification record per transaction exists; under fairness of the
\* background task every scheduled call is issued.
C4_ExactlyOnePost ==
  /\ [][ (Answers /\ last'.op = "create_transaction" /\ last'.resp = 201) =>
           /\ task[last'.obj.id].state = "none"
           /\ task'[last'.obj.id].state = "scheduled" ]_vars
  /\ [](\A i \in Reqs : task[i].posts <= 1)
  /\ [](\A q \in Shown : q.origin # 0 =>
          /\ q.arg.type = "transaction_created"
          /\ \E k \in DOMAIN q.arg.metadata.val :
               q.arg.metadata.val[k] = <<"transaction_id", txStore[q.origin].transaction_id[1],
                                         txStore[q.origin].transaction_id[2]>>)
  /\ [](\A i \in DOMAIN txStore : Cardinality(NotificationsOf(i)) <= 1)
  /\ \A i \in Reqs : (task[i].state = "scheduled") ~> (task[i].posts = 1)

\* The notifier of the first transaction has posted once and the notification
\* service holds the one record of it.
C4_Witness ==
  /\ task[1].state = "done" /\ task[1].posts = 1
  /\ Len(txStore) = 1
  /\ NotificationsOf(1) = {1}
  /\ ntStore[1].type = "transaction_created"

\* C5: the 201 of create_transaction is given, with the committed record, while
\* the notifier call has not yet posted; and no step of a notifier call changes
\* the transaction table or a counter of the transaction service: a failure
\* ends in the notifier's own log.
C5_NotifierIsolated ==
  [][ /\ (Answers /\ last'.op = "create_transaction" /\ last'.resp = 201) =>
           /\ task'[last'.obj.id].posts = 0
           /\ last'.obj = txStore'[last'.obj.id]
      /\ \A i \in Reqs : (task[i].state # "none" /\ task'[i] # task[i]) =>
           /\ txStore' = txStore
           /\ metrics'.TRANSACTION_ERRORS = metrics.TRANSACTION_ERRORS
           /\ metrics'.TRANSACTION_CREATED = metrics.TRANSACTION_CREATED
           /\ (last.op = "create_transaction" /\ last'.op = "create_transaction") => last' = last
           /\ task'[i].state = "done" => task'[i].log \in {"info", "warning", "error"} ]_vars

\* The notifier of a created transaction has failed; the 201 and the record
\* stand.
C5_Witness ==
  /\ last.op = "create_transaction" /\ last.resp = 201
  /\ task[last.obj.id].state = "done" /\ task[last.obj.id].log = "error"
  /\ txStore[last.obj.id] = last.obj
  /\ metrics.TRANSACTION_ERRORS = 0

\* C6: when the cache write of a creation fails after the commit, the answer is
\* 500, the error counter of the service goes up, and the committed record is
\* in the table still: both tables are as they were.
C6_CacheFailureKeepsRecord ==
  [][ (Answers /\ last'.op \in CreationOps /\ last'.stage = "cache") =>
        /\ last'.resp = 500
        /\ metrics'[ErrorCounter(last'.op)] = metrics[ErrorCounter(last'.op)] + 1
        /\ Records(last'.op, last'.bid, txStore', ntStore') # {}
        /\ UNCHANGED <<txStore, ntStore>> ]_vars

\* Both creation handlers have answered 500 from the cache write, and both
\* records are stored with no cache entry.
C6_Witness ==
  /\ last.op = "create_notification" /\ last.stage = "cache" /\ last.resp = 500
  /\ Records(last.op, last.bid, txStore, ntStore) # {}
  /\ Len(txStore) = 1 /\ metrics.TRANSACTION_ERRORS = 1
  /\ DOMAIN cache = {}

\* The last answer is the 200 of a mark-as-read.
MarkedRead == last.op = "mark_notification_as_read" /\ last.resp = 200
\* The stored record of the last answer is read, with a read timestamp.
StoredRead ==
  \E i \in DOMAIN ntStore :
    /\ ntStore[i].notification_id = last.bid /\ ntStore[i].is_active
    /\ ntStore[i].status = "read" /\ ntStore[i].read_at # NULL
\* Neither cache key of the record of the last answer is present.
Invalidated ==
  /\ cache_key("notification", last.bid) \notin DOMAIN cache
  /\ user_cache_key(last.obj.user_id) \notin DOMAIN cache
\* A step of a mark-as-read that removes a cache key is taken after the UPDATE
\* of that request was committed.
InvalidatesAfterCommit ==
  \A r \in Reqs :
    (/\ req[r].op = "mark_notification_as_read"
     /\ req'[r] # req[r]
     /\ DOMAIN cache' # DOMAIN cache) =>
      /\ req[r].pc \in {"delete_record", "delete_user"}
      /\ \E i \in DOMAIN ntStore : /\ ntStore[i].notification_id = req[r].bid
                                   /\ ntStore[i].status = "read"
                                   /\ ntStore[i].read_at # NULL

\* C7 (as stated): after a mark-as-read of an unread notification has answered
\* 200, the stored status is "read", read_at is not null, and neither the
\* per-record key nor the per-user list key is in the cache; keys are deleted
\* only after the commit.
C7_MarkReadLeavesNoCacheKey ==
  [][ /\ (MarkedRead /\ last.found.status = "unread")' => (StoredRead /\ Invalidated)'
      /\ InvalidatesAfterCommit ]_vars

\* C7 (amended): the same, for a notification whose create_notification had
\* answered when the UPDATE ran; the creating request's own cache write can
\* otherwise follow the delete.
C7_MarkReadLeavesNoCacheKeyOnceCreated ==
  [][ /\ (MarkedRead /\ last.found.status = "unread" /\ ~last.found.creating)' =>
           (StoredRead /\ Invalidated)'
      /\ InvalidatesAfterCommit ]_vars

\* A notification created and cached by this process was marked read: its
\* record is read and both keys are gone.
C7_Witness ==
  /\ MarkedRead /\ last.found.status = "unread" /\ ~last.found.creating
  /\ metrics.NOTIFICATIONS_SENT = 1 /\ Len(ntStore) = 1
  /\ StoredRead /\ Invalidated

\* No active record carries the business id.
NoActiveMatch(notification_id) ==
  \A i \in DOMAIN ntStore :
    ~(ntStore[i].notification_id = notification_id /\ ntStore[i].is_active)

\* C8: a mark-as-read whose UPDATE finds no active record with the business id
\* answers at once, with 404 (500 only when the statement itself raises), and
\* from its entry to its answer no cache key is deleted and no record changes.
C8_UnmatchedMarkIsNotFound ==
  [][ \A r \in Reqs :
        /\ (req[r].pc = "idle" /\ req'[r].op = "mark_notification_as_read") =>
             UNCHANGED <<ntStore, cache>>
        /\ (/\ req[r].op = "mark_notification_as_read" /\ req[r].pc = "execute"
            /\ req'[r] # req[r]
            /\ NoActiveMatch(req[r].bid)) =>
             /\ Answers /\ last'.op = req[r].op /\ last'.bid = req[r].bid
             /\ last'.resp \in {404, 500}
             /\ last'.resp = 500 => last'.stage = "execute"
             /\ UNCHANGED <<ntStore, cache>> ]_vars

\* A mark-as-read of an id no record carries answered 404, with a record
\* stored and keys cached.
C8_Witness ==
  /\ last.op = "mark_notification_as_read" /\ last.resp = 404
  /\ NoActiveMatch(last.bid)
  /\ Len(ntStore) >= 1 /\ DOMAIN cache # {}

\* C9: the UPDATE of a mark-as-read stamps every active record it matches,
\* read or unread, with status "read" and the two times of this call, which
\* are later than every time stored when the call began; a 404 is given only
\* when no active record matches; so the 200 for an already read record
\* returns a read_at other than the one the record had.
C9_MarkReadRestamps ==
  [][ /\ \A r \in Reqs :
           /\ (req[r].pc = "idle" /\ req'[r].op = "mark_notification_as_read") =>
                \A i \in DOMAIN ntStore :
                  /\ req'[r].values.read_at > ntStore[i].read_at
                  /\ req'[r].values.updated_at > ntStore[i].updated_at
           /\ (/\ req[r].op = "mark_notification_as_read" /\ req[r].pc = "execute"
               /\ req'[r].pc = "delete_record") =>
                \A i \in DOMAIN ntStore :
                  IF ntStore[i].notification_id = req[r].bid /\ ntStore[i].is_active
                  THEN /\ ntStore'[i].status = "read"
                       /\ ntStore'[i].read_at = req[r].values.read_at
                       /\ ntStore'[i].updated_at = req[r].values.updated_at
                  ELSE ntStore'[i] = ntStore[i]
      /\ (Answers /\ last'.op = "mark_notification_as_read" /\ last'.resp = 404) =>
           NoActiveMatch(last'.bid)
      /\ (MarkedRead /\ last.found.status = "read")' =>
           (last.obj.status = "read" /\ last.obj.read_at # last.found.read_at)' ]_vars

\* A second mark-as-read of a record answered 200 with a later read_at.
C9_Witness ==
  /\ MarkedRead /\ last.found.status = "read"
  /\ last.found.read_at # NULL
  /\ last.obj.read_at > last.found.read_at
  /\ \E i \in DOMAIN ntStore : ntStore[i] = last.obj

\* C10: the step in which a request is answered 422, 404 or 500 leaves the
\* error counter of the service greater than it was.
C10_EveryErrorCounted ==
  [][ (Answers /\ last'.resp \in {422, 404, 500}) =>
        metrics'[ErrorCounter(last'.op)] > metrics[ErrorCounter(last'.op)] ]_vars

\* C11: /health always answers 200; the overall status is "healthy" exactly
\* when both probes succeeded and "degraded" otherwise; each dependency's
\* status reports its own probe, whatever the other probe did; and no table,
\* cache entry or counter changes.
C11_HealthReportsProbes ==
  [][ (Answers /\ last'.op = "health_check") =>
        /\ last'.resp = 200
        /\ last'.obj.status = (IF last'.arg.db_ok /\ last'.arg.redis_ok
                               THEN "healthy" ELSE "degraded")
        /\ (last'.obj.database = "healthy") <=> last'.arg.db_ok
        /\ (last'.obj.redis = "healthy") <=> last'.arg.redis_ok
        /\ UNCHANGED <<txStore, ntStore, cache, metrics, task>> ]_vars

\* With a transaction stored and cached, the store probe failed and the cache
\* probe was still run and reported healthy: the service is degraded.
C11_Witness ==
  /\ last.op = "health_check" /\ last.resp = 200
  /\ ~last.arg.db_ok /\ last.arg.redis_ok
  /\ last.obj.database = "unhealthy" /\ last.obj.redis = "healthy"
  /\ last.obj.status = "degraded"
  /\ Len(txStore) = 1 /\ DOMAIN cache # {}

\* The rows whose creation answered 201 with business id `transaction_id`.
Returned201(transaction_id) ==
  {i \in DOMAIN txStore :
     /\ accepted[<<"transactions", i>>] # NoArg
     /\ txStore[i].transaction_id = transaction_id}

\* C12: a read-by-id of a business id that a creation returned with 201, when
\* neither the cache read nor the query raises, answers 200 with that id, the
\* user id, amount, type, description and structured metadata as submitted,
\* the currency upper-cased, and status "pending"; the id starts with TXN.
C12_ReadReturnsSubmitted ==
  [][ (/\ Answers /\ last'.op = "get_transaction"
       /\ last'.stage \notin {"cache", "execute"}
       /\ Returned201(last'.bid) # {}) =>
        \A i \in Returned201(last'.bid) :
          /\ last'.resp = 200
          /\ last'.obj.transaction_id = last'.bid
          /\ last'.bid[1] = "TXN"
          /\ LET submitted == accepted[<<"transactions", i>>]
             IN /\ last'.obj.user_id = submitted.user_id
                /\ last'.obj.amount = submitted.amount
                /\ last'.obj.transaction_type = submitted.transaction_type
                /\ last'.obj.description = submitted.description
                /\ last'.obj.metadata = submitted.metadata
                /\ last'.obj.currency = upper(submitted.currency)
                /\ last'.obj.status = "pending" ]_vars

\* The business ids of the rows of a table.
BusinessIds(rows, column) == {rows[i][column] : i \in DOMAIN rows}
\* The table and the business-id column of creation handler `op`.
TableOf(op) == IF op = "create_transaction" THEN "transactions" ELSE "notifications"

\* C13: no two rows of a table share a business id; creation requests that
\* have committed and not yet answered hold different business ids; and a 201
\* of a creation returns the id of exactly one row, which no earlier 201 has
\* returned.
C13_BusinessIdsUnique ==
  [][ /\ Cardinality(BusinessIds(txStore', "transaction_id")) = Len(txStore')
      /\ Cardinality(BusinessIds(ntStore', "notification_id")) = Len(ntStore')
      /\ \A r1, r2 \in Reqs :
           (/\ r1 # r2
            /\ req'[r1].op \in CreationOps
            /\ req'[r2].op = req'[r1].op) => req'[r1].bid # req'[r2].bid
      /\ (Answers /\ last'.op \in CreationOps /\ last'.resp = 201) =>
           /\ Records(last'.op, last'.bid, txStore', ntStore') = {last'.obj.id}
           /\ accepted[<<TableOf(last'.op), last'.obj.id>>] = NoArg
           /\ accepted'[<<TableOf(last'.op), last'.obj.id>>] # NoArg ]_vars

\* Two transaction creations drew the same identifier: one was answered 201,
\* the other 500, and one row carries the identifier.
C13_Witness ==
  /\ last.op = "create_transaction" /\ last.resp = 500 /\ last.stage = "commit"
  /\ Returned201(last.bid) # {}
  /\ Len(txStore) = 1

\* C14: the body the notifier builds for a transaction that passed validation
\* violates no constraint of the notification service, title length included,
\* and no POST of the notifier is answered 422.
C14_NotifierBodyIsValid ==
  /\ \A i \in Reqs : task[i].state # "none" =>
       LET q == Request("create_notification", notification_payload(task[i].data))
       IN /\ ~ViolatesConstraint(q)
          /\ Len(q.arg.title) <= 200
          /\ q.arg.user_id \in Users
  /\ \A q \in Shown : q.origin # 0 =>
       /\ q.resp # 422
       /\ ~ViolatesConstraint(q)
       /\ Len(q.arg.title) <= 200

\* The notification service has created the notification the notifier posted.
C14_Witness ==
  /\ last.op = "create_notification" /\ last.origin # 0 /\ last.resp = 201
  /\ last.arg.type = "transaction_created" /\ last.arg.priority = "normal"
  /\ task[last.origin].state = "done"

\* The counter of creations and the counter of errors of the service of `op`.
CreatedCounter(op) ==
  IF op = "create_transaction" THEN "TRANSACTION_CREATED" ELSE "NOTIFICATIONS_SENT"
\* The 201 answers given so far by the creation handler of a table.
Answered201(table) == {i \in Rows : accepted[<<table, i>>] # NoArg}
\* No handler is running.
Quiescent == \A r \in Reqs : req[r].pc = "idle"

\* C15: a creation answered 201 increments the created counter of its service
\* once and not the error counter; a creation answered with an error does not
\* increment the created counter; so with no request running each created
\* counter equals the number of 201 answers.
C15_CreatedCountsSuccesses ==
  [][ /\ (Answers /\ last'.op \in CreationOps) =>
           IF last'.resp = 201
           THEN /\ metrics'[CreatedCounter(last'.op)] = metrics[CreatedCounter(last'.op)] + 1
                /\ metrics'[ErrorCounter(last'.op)] = metrics[ErrorCounter(last'.op)]
           ELSE metrics'[CreatedCounter(last'.op)] = metrics[CreatedCounter(last'.op)]
      /\ Quiescent' =>
           /\ metrics'.TRANSACTION_CREATED = Cardinality(Answered201("transactions"))'
           /\ metrics'.NOTIFICATIONS_SENT = Cardinality(Answered201("notifications"))' ]_vars

\* C16: every stored notification has status "unread" or "read", has a read
\* timestamp exactly when it is "read", and never goes from "read" back to
\* "unread".
C16_NotificationStatus ==
  [][ /\ \A i \in DOMAIN ntStore' :
           /\ ntStore'[i].status \in {"unread", "read"}
           /\ (ntStore'[i].read_at # NULL) <=> (ntStore'[i].status = "read")
      /\ \A i \in DOMAIN ntStore :
           ntStore[i].status = "read" => ntStore'[i].status = "read" ]_vars

\* After a creation and a mark-as-read, one stored notification is read, with
\* its timestamp, and the other unread, without.
C16_Witness ==
  /\ Len(ntStore) = 2
  /\ \E i, j \in DOMAIN ntStore :
       /\ ntStore[i].status = "read" /\ ntStore[i].read_at # NULL
       /\ ntStore[j].status = "unread" /\ ntStore[j].read_at = NULL
  /\ Quiescent /\ last.op = "mark_notification_as_read" /\ last.resp = 200

\* The fields of a notification that mark-as-read's UPDATE does not set.
NotificationFrame(row) ==
  [row EXCEPT !.status = "", !.read_at = NULL, !.updated_at = ClassDefTime]
\* The stored notifications a step changes.
ChangedNotifications == {i \in DOMAIN ntStore : ntStore'[i] # ntStore[i]}
\* The UPDATE of a mark-as-read for the notification in row i runs in this step.
MarkExecutes(i) ==
  \E r \in Reqs :
    /\ req[r].op = "mark_notification_as_read" /\ req[r].pc = "execute"
    /\ req'[r].pc = "delete_record"
    /\ req[r].bid = ntStore[i].notification_id

\* C17: no step of either service removes a stored record or changes its
\* business id, owner or soft-delete flag; the tables only grow; a stored
\* transaction stays "pending" with the fields it was created with; and the
\* only change to a stored notification is the UPDATE of a mark-as-read, which
\* changes the status, read_at and updated_at of the one row it matched.
C17_RecordsOnlyGrow ==
  [][ /\ Len(txStore') >= Len(txStore)
      /\ Len(ntStore') >= Len(ntStore)
      /\ \A i \in DOMAIN txStore' : txStore'[i].status = "pending" /\ txStore'[i].is_active
      /\ \A i \in DOMAIN txStore : txStore'[i] = txStore[i]
      /\ \A i \in DOMAIN ntStore :
           /\ NotificationFrame(ntStore'[i]) = NotificationFrame(ntStore[i])
           /\ ntStore'[i].is_active
      /\ Cardinality(ChangedNotifications) <= 1
      /\ \A i \in ChangedNotifications : MarkExecutes(i) ]_vars

\* A mark-as-read has answered 200 for the earlier notification while a
\* transaction is stored.
C17_Witness ==
  /\ last.op = "mark_notification_as_read" /\ last.resp = 200
  /\ ntStore[1] = MarkUpdate(EarlierNotification, ntStore[1].read_at, ntStore[1].updated_at)
  /\ ntStore[1].read_at # NULL
  /\ Len(txStore) = 1 /\ txStore[1].status = "pending"

\* The per-record cache keys of a table, as the business ids they name.
CachedIds(prefix) == {<<k[2], k[3]>> : k \in {c \in DOMAIN cache : c[1] = prefix}}
\* The cache entry of a business id is a copy of a row with that id.
ShadowsRow(prefix, rows, column) ==
  \A id \in CachedIds(prefix) :
    /\ id \in BusinessIds(rows, column)
    /\ cache[cache_key(prefix, id)].value[column] = id

\* C18: every transaction:<id> and notification:<id> entry of the cache names
\* the business id of a row committed in the table of its service, and holds a
\* copy of a row with that id.
C18_CacheShadowsCommitted ==
  /\ ShadowsRow("transaction", txStore, "transaction_id")
  /\ ShadowsRow("notification", ntStore, "notification_id")

\* The cache holds the entry of a committed notification, and none for the
\* transaction whose creation has just failed at its commit.
C18_Witness ==
  /\ CachedIds("notification") # {}
  /\ last.op = "create_transaction" /\ last.stage = "commit" /\ last.resp = 500
  /\ last.bid \notin CachedIds("transaction")

\* The business ids whose cache entry shows "unread" while the stored
\* notification is "read", for a cache c and a table rows.
StaleUnread(c, rows) ==
  {id \in BusinessIds(rows, "notification_id") :
     /\ cache_key("notification", id) \in DOMAIN c
     /\ c[cache_key("notification", id)].value.status = "unread"
     /\ \E i \in DOMAIN rows : rows[i].notification_id = id /\ rows[i].status = "read"}
\* Request r takes the step from pc `from` to pc `to` for business id `id`.
Steps(r, op, from, to, id) ==
  /\ req[r].op = op /\ req[r].pc = from /\ req[r].bid = id
  /\ req'[r].op = op /\ req'[r].pc = to

AnswersNotifier(i) ==
  /\ Answers
  /\ last'.op = "create_notification" /\ last'.origin = i
  /\ task[i].state = "posting"

\* C20: when the notification service answers the notifier's POST with its
\* created status, the notification stored, the notifier logs the success; the
\* notifier logs the warning only when the notification was not created.
C20_NotifierOutcomeAgrees ==
  [][ \A i \in Reqs : AnswersNotifier(i) =>
        /\ (last'.resp = 201 /\ Records("create_notification", last'.bid, txStore', ntStore') # {})
             => task'[i].log = "info"
        /\ task'[i].log = "warning" => last'.resp # 201 ]_vars

====
